---- MODULE Spec2Model ----
(***************************************************************************)
(* Model of the Aegisum miner UI (src/main.py): the MiningThread worker    *)
(* loop and the AppWindow handlers start_mining / stop_mining that create  *)
(* and stop workers.                                                       *)
(*                                                                         *)
(* A daemon command (a subprocess call) has two modelled outcomes: exit    *)
(* status 0 ("ok") and a non-zero exit status ("fail"), which makes        *)
(* subprocess.run(check=True) / check_output raise CalledProcessError.     *)
(* A getnewaddress call that exits with status 0 prints an address.        *)
(*                                                                         *)
(* Spec is the mining machine: the workers and the Start and Stop          *)
(* requests.  PollSpec adds the two poll timers of the window, and         *)
(* DeliverySpec the delivery of the workers' signals to the window's       *)
(* slots (queued connections).                                             *)
(***************************************************************************)
EXTENDS Integers, Sequences, FiniteSets, TLC

\* ---------------------------------------------------------------- bounds
\* Number of MiningThread objects ever constructed.
MaxWorkers == 2
\* Number of blocks the daemon mines in total (over all workers).
MaxBlocks == 4
\* Number of Start requests whose getnewaddress call fails.
MaxFailedStarts == 1

Workers == 1..MaxWorkers
\* mining_thread attribute not set on the AppWindow (hasattr is False)
NoThread == 0

VARIABLES
    \* --- MiningThread objects, indexed by construction order
    created,          \* number of MiningThread objects constructed so far
    wallet_address,   \* [w] self.wallet_address (index of the address issued)
    running,          \* [w] self.running
    blocks_mined,     \* [w] self.blocks_mined
    pc,               \* [w] position of the thread in run()
    emitted,          \* [w] signals emitted by the worker, in order
    \* --- AppWindow
    mining_thread,    \* self.mining_thread: NoThread or a worker
    status_label,     \* text of self.status_label
    start_button,     \* self.start_button.isEnabled()
    stop_button,      \* self.stop_button.isEnabled()
    logs_text_edit,   \* lines appended to self.logs_text_edit
    uncaught,         \* exception that escaped a slot of the AppWindow
    balance_label,    \* text of self.balance_label
    mining_data_label,\* text of self.mining_data_label
    delivered,        \* [w] number of the worker's signals whose slot has run
    process,          \* the application process: "running" or "aborted"
    executed,         \* a getmininginfo response has been run as code
    \* --- daemon
    addresses,        \* number of addresses getnewaddress has issued
    blocks,           \* number of blocks generatetoaddress has mined
    \* --- history (not program state)
    gen_log,          \* [w] outcomes of the worker's generatetoaddress calls
    info_log,         \* [w] outcomes of the worker's getmininginfo calls
    stopped_in,       \* [w] what the worker was doing when stop() was called on it
    newaddress_calls, \* number of getnewaddress calls made
    last,             \* the last Start/Stop request and what became of it
    blocks_at_stop,   \* [w] blocks_mined of the worker when stop() was called on it
    last_slot         \* the last poll tick or signal delivery and what became of it

workerVars == <<created, wallet_address, running, blocks_mined, pc, emitted>>
windowVars == <<mining_thread, status_label, start_button, stop_button,
                logs_text_edit, uncaught>>
historyVars == <<gen_log, info_log, stopped_in, newaddress_calls, last>>
daemonVars == <<addresses, blocks>>
\* What the slots on the event loop read and write, and the queue they read.
slotVars == <<balance_label, mining_data_label, process, executed, last_slot>>
vars == <<workerVars, windowVars, daemonVars, historyVars,
          slotVars, delivered, blocks_at_stop>>

\* Everything the program itself holds (no history variables).
programVars == <<workerVars, windowVars, daemonVars, balance_label,
                 mining_data_label, process, executed, delivered>>

\* ---------------------------------------------------------------- helpers
\* QThread.isRunning(): started and run() has not returned yet.
isRunning(w) == pc[w] \notin {"unborn", "finished"}

Live == {w \in Workers : isRunning(w)}

\* generatetoaddress calls that are in flight
InFlight == {w \in Workers : pc[w] = "generatetoaddress"}

\* The daemon can still mine a block for one more call.
DaemonHasBlocks == blocks + Cardinality(InFlight) < MaxBlocks

NoRequest == [op |-> "none", outcome |-> "none"]

NoSlot == [slot |-> "none", outcome |-> "none"]

Signal(name, count, msg) == [sig |-> name, count |-> count, msg |-> msg]

\* ---------------------------------------------------------------- Init
Init ==
    /\ created = 0
    /\ wallet_address = [w \in Workers |-> 0]
    /\ running = [w \in Workers |-> FALSE]
    /\ blocks_mined = [w \in Workers |-> 0]
    /\ pc = [w \in Workers |-> "unborn"]
    /\ emitted = [w \in Workers |-> <<>>]
    /\ mining_thread = NoThread
    /\ status_label = "Status: Waiting to start mining..."
    /\ start_button = TRUE
    /\ stop_button = TRUE
    /\ logs_text_edit = <<>>
    /\ uncaught = "none"
    /\ addresses = 0
    /\ blocks = 0
    /\ gen_log = [w \in Workers |-> <<>>]
    /\ info_log = [w \in Workers |-> <<>>]
    /\ stopped_in = [w \in Workers |-> "never"]
    /\ newaddress_calls = 0
    /\ last = NoRequest
    /\ balance_label = "Balance: Not Checked"
    /\ mining_data_label = <<"Mining Info: Fetching...">>
    /\ delivered = [w \in Workers |-> 0]
    /\ process = "running"
    /\ executed = FALSE
    /\ blocks_at_stop = [w \in Workers |-> 0]
    /\ last_slot = NoSlot


\* ---------------------------------------------------------------- MiningThread
\* subprocess.check_output raises CalledProcessError exactly when the command
\* exits with a non-zero status.
CalledProcessError(outcome) == outcome = "fail"

\* subprocess.run(..., check=True) with check left out: never raises.
RunWithoutCheck(outcome) == FALSE

\* subprocess.run([... "generatetoaddress" ...], check=True) in run(): raises
\* CalledProcessError exactly when the command exits with a non-zero status.
RunChecked(outcome) == outcome = "fail"

\* stop() that flips the flag instead of clearing it.
stop_toggle(r, w) == [r EXCEPT ![w] = ~r[w]]

\* MiningThread.stop applied to the running flags r: self.running = False
stop(r, w) == [r EXCEPT ![w] = FALSE]

\* A MiningThread that has finished and is no longer self.mining_thread is
\* referenced by nothing: Python frees the object.  Its fields and its logs
\* go back to their initial values; only pc (finished) and stopped_in stay.
Freed(f, G, initial) == [w \in Workers |-> IF w \in G THEN initial ELSE f[w]]

\* The worker's thread ends (run() returns) or goes on to pc value `to`.
\* G is the set of workers this frees.
WorkerMoves(w, to, G) ==
    /\ pc' = [pc EXCEPT ![w] = to]
    /\ wallet_address' = Freed(wallet_address, G, 0)
    /\ running' = Freed(running, G, FALSE)
    /\ blocks_mined' = Freed(blocks_mined, G, 0)
    /\ emitted' = Freed(emitted, G, <<>>)
    /\ gen_log' = Freed(gen_log, G, <<>>)
    /\ info_log' = Freed(info_log, G, <<>>)
    /\ delivered' = Freed(delivered, G, 0)
    /\ blocks_at_stop' = Freed(blocks_at_stop, G, 0)

Unreferenced(w) == IF w # mining_thread THEN {w} ELSE {}

\* The condition of `while self.running`, without the stop flag.
LoopForever(w) == TRUE

\* The condition of `while self.running` in run()
LoopCondition(w) == running[w]

\* run(): the test of `while self.running`.  A true flag starts the
\* generatetoaddress call; a false flag ends the loop and run() returns.
LoopTest(w) ==
    /\ pc[w] = "while"
    /\ LoopCondition(w) => DaemonHasBlocks
    /\ IF LoopCondition(w)
       THEN WorkerMoves(w, "generatetoaddress", {})
       ELSE WorkerMoves(w, "finished", Unreferenced(w))
    /\ UNCHANGED <<created, windowVars, daemonVars, stopped_in, newaddress_calls, last>>
    /\ UNCHANGED slotVars

\* run(): generatetoaddress returns.  Exit status 0: count the block, emit
\* blocks_mined_signal and mining_result and go on to update_mining_data.
\* CalledProcessError: leave the loop for the except clause, emit the two
\* messages and sleep 5 seconds.
GenerateReturns(w, outcome) ==
    /\ pc[w] = "generatetoaddress"
    /\ gen_log' = [gen_log EXCEPT ![w] = Append(@, outcome)]
    /\ blocks' = IF outcome = "ok" THEN blocks + 1 ELSE blocks
    /\ IF ~RunChecked(outcome)
       THEN /\ blocks_mined' = [blocks_mined EXCEPT ![w] = @ + 1]
            /\ emitted' = [emitted EXCEPT ![w] = @ \o
                 << Signal("blocks_mined_signal", blocks_mined[w] + 1, ""),
                    Signal("mining_result", 0, "Block mined successfully!") >>]
            /\ pc' = [pc EXCEPT ![w] = "getmininginfo"]
       ELSE /\ blocks_mined' = blocks_mined
            /\ emitted' = [emitted EXCEPT ![w] = @ \o
                 << Signal("mining_result", 0, "ERROR: Mining failed"),
                    Signal("mining_result", 0, "Retrying in 5 seconds...") >>]
            /\ pc' = [pc EXCEPT ![w] = "sleep_5"]
    /\ UNCHANGED <<created, wallet_address, running, addresses>>
    /\ UNCHANGED <<windowVars, info_log, stopped_in, newaddress_calls, last>>
    /\ UNCHANGED <<slotVars, delivered, blocks_at_stop>>

\* update_mining_data(): getmininginfo returns.  Exit status 0: emit the raw
\* output; CalledProcessError: caught here, emit an error message.  Either way
\* run() goes on to time.sleep(MINING_DELAY).
MiningInfoReturns(w, outcome) ==
    /\ pc[w] = "getmininginfo"
    /\ info_log' = [info_log EXCEPT ![w] = Append(@, outcome)]
    /\ emitted' = [emitted EXCEPT ![w] = Append(@,
            IF ~CalledProcessError(outcome)
            THEN Signal("mining_data_signal", 0, "getmininginfo output")
            ELSE Signal("mining_result", 0, "ERROR: Unable to fetch mining data"))]
    /\ pc' = [pc EXCEPT ![w] = "sleep_delay"]
    /\ UNCHANGED <<created, wallet_address, running, blocks_mined>>
    /\ UNCHANGED <<windowVars, daemonVars, gen_log, stopped_in, newaddress_calls, last>>
    /\ UNCHANGED <<slotVars, delivered, blocks_at_stop>>

\* run(): time.sleep(MINING_DELAY) returns, back to the loop test.
DelayReturns(w) ==
    /\ pc[w] = "sleep_delay"
    /\ pc' = [pc EXCEPT ![w] = "while"]
    /\ UNCHANGED <<created, wallet_address, running, blocks_mined, emitted>>
    /\ UNCHANGED <<windowVars, daemonVars, historyVars>>
    /\ UNCHANGED <<slotVars, delivered, blocks_at_stop>>

\* run(): time.sleep(5) in the except clause returns; the except clause is
\* outside the while loop, so run() returns and the thread finishes.
BackoffReturns(w) ==
    /\ pc[w] = "sleep_5"
    /\ WorkerMoves(w, "finished", Unreferenced(w))
    /\ UNCHANGED <<created, windowVars, daemonVars, stopped_in, newaddress_calls, last>>
    /\ UNCHANGED slotVars

WorkerStep(w) ==
    \/ LoopTest(w)
    \/ \E outcome \in {"ok", "fail"} : GenerateReturns(w, outcome)
    \/ \E outcome \in {"ok", "fail"} : MiningInfoReturns(w, outcome)
    \/ DelayReturns(w)
    \/ BackoffReturns(w)

\* ---------------------------------------------------------------- AppWindow
\* The part of the state stop_mining reads and writes.
Window ==
    [ mining_thread |-> mining_thread, running |-> running, alive |-> Live,
      status_label |-> status_label, start_button |-> start_button,
      stop_button |-> stop_button, uncaught |-> uncaught ]

\* hasattr left out of stop_mining's condition.
hasattr_skipped(s) == TRUE

\* hasattr(self, 'mining_thread')
hasattr_mining_thread(s) == s.mining_thread # NoThread

\* stop_mining(): the slot of the Stop button, as a function of the state.
\* Reading self.mining_thread when the attribute is not set raises
\* AttributeError, which nothing in the slot catches.
stop_mining(s) ==
    IF ~hasattr_mining_thread(s) THEN s
    ELSE IF s.mining_thread = NoThread THEN [s EXCEPT !.uncaught = "AttributeError"]
    ELSE IF s.mining_thread \notin s.alive THEN s
    ELSE [s EXCEPT !.running = stop(s.running, s.mining_thread),
                   !.status_label = "Status: Mining stopped.",
                   !.start_button = TRUE,
                   !.stop_button = FALSE]

\* A click on the Stop button: the slot runs only when the button is enabled.
StopClicked(s) == IF s.stop_button THEN stop_mining(s) ELSE s

\* stop_mining() took its branch: the thread exists and isRunning().
StopTakesEffect(s) ==
    hasattr_mining_thread(s) /\ s.mining_thread \in s.alive

\* The user clicks Stop while the button is enabled.
StopRequest ==
    /\ stop_button
    /\ LET t == stop_mining(Window) IN
        /\ running' = t.running
        /\ status_label' = t.status_label
        /\ start_button' = t.start_button
        /\ stop_button' = t.stop_button
        /\ uncaught' = t.uncaught
        /\ mining_thread' = t.mining_thread
    /\ stopped_in' = IF StopTakesEffect(Window)
                     THEN [stopped_in EXCEPT ![mining_thread] =
                             IF pc[mining_thread] = "sleep_5" THEN "backoff" ELSE "mining"]
                     ELSE stopped_in
    /\ last' = [op |-> "Stop",
                outcome |-> IF StopTakesEffect(Window) THEN "stopped" ELSE "nothing"]
    /\ UNCHANGED <<created, wallet_address, blocks_mined, pc, emitted>>
    /\ UNCHANGED <<logs_text_edit, daemonVars, gen_log, info_log, newaddress_calls>>
    /\ UNCHANGED <<slotVars, delivered>>

\* The user clicks Stop while the button is disabled: no slot runs.
StopRequestDisabled ==
    /\ ~stop_button
    /\ last' = [op |-> "Stop", outcome |-> "disabled"]
    /\ UNCHANGED <<programVars, gen_log, info_log, stopped_in, newaddress_calls>>
    /\ UNCHANGED <<blocks_at_stop, last_slot>>

\* start_mining() that leaves the Start button enabled.
StartButtonLeftEnabled == TRUE

\* self.start_button.setEnabled(False) in start_mining()
StartButtonAfterStart == FALSE

\* The user clicks Start while the button is enabled: start_mining() with
\* get_wallet_address() inlined.  getnewaddress exits 0 with an address: a
\* MiningThread is constructed, stored in self.mining_thread (which drops the
\* reference to the thread before it) and started.
StartRequestOk ==
    /\ start_button
    /\ created < MaxWorkers
    /\ LET w == created + 1
           G == {v \in Workers : v = mining_thread /\ pc[v] = "finished"}
       IN
        /\ created' = w
        /\ addresses' = addresses + 1
        /\ wallet_address' = [Freed(wallet_address, G, 0) EXCEPT ![w] = addresses + 1]
        /\ running' = [Freed(running, G, FALSE) EXCEPT ![w] = TRUE]
        /\ blocks_mined' = [Freed(blocks_mined, G, 0) EXCEPT ![w] = 0]
        /\ emitted' = Freed(emitted, G, <<>>)
        /\ gen_log' = Freed(gen_log, G, <<>>)
        /\ info_log' = Freed(info_log, G, <<>>)
        /\ delivered' = Freed(delivered, G, 0)
        /\ blocks_at_stop' = Freed(blocks_at_stop, G, 0)
        /\ pc' = [pc EXCEPT ![w] = "while"]
        /\ mining_thread' = w
    /\ status_label' = "Status: Mining started..."
    /\ start_button' = StartButtonAfterStart
    /\ stop_button' = TRUE
    /\ newaddress_calls' = newaddress_calls + 1
    /\ last' = [op |-> "Start", outcome |-> "started"]
    /\ UNCHANGED <<blocks, logs_text_edit, uncaught, stopped_in, slotVars>>

\* start_mining() when getnewaddress exits non-zero: get_wallet_address()
\* catches CalledProcessError, appends its message to the log view and returns
\* None; start_mining() then reports through update_mining_result().
StartRequestFails ==
    /\ start_button
    /\ newaddress_calls - addresses < MaxFailedStarts
    /\ logs_text_edit' = logs_text_edit \o
          << "ERROR: Failed to retrieve wallet address",
             "Error: Could not get wallet address." >>
    /\ newaddress_calls' = newaddress_calls + 1
    /\ last' = [op |-> "Start", outcome |-> "getnewaddress failed"]
    /\ UNCHANGED <<workerVars, mining_thread, status_label, start_button,
                   stop_button, uncaught, daemonVars, gen_log, info_log, stopped_in>>
    /\ UNCHANGED <<slotVars, delivered, blocks_at_stop>>

\* The user clicks Start while the button is disabled: no slot runs.
StartRequestDisabled ==
    /\ ~start_button
    /\ last' = [op |-> "Start", outcome |-> "disabled"]
    /\ UNCHANGED <<programVars, gen_log, info_log, stopped_in, newaddress_calls>>
    /\ UNCHANGED <<blocks_at_stop, last_slot>>

\* ---------------------------------------------------------------- responses
\* The text getmininginfo prints, as far as format_mining_data tells texts
\* apart: a dict literal with some of the keys, a text that is no Python
\* expression, or an expression that calls a function before it yields the
\* dict.  v tells two answers apart.
Versions == {1, 2}

Fields == <<"blocks", "currentblockweight", "difficulty", "networkhashps",
            "pooledtx", "chain", "warnings">>

Labels == <<"Blocks", "Current Block Weight", "Difficulty",
            "Network Hashrate (H/s)", "Pooled Transactions", "Chain", "Warnings">>

AllFields == {Fields[i] : i \in DOMAIN Fields}

Response(form, keys, v) == [form |-> form, keys |-> keys, v |-> v]

Responses ==
    {Response("dict", AllFields, v) : v \in Versions}
      \cup {Response("dict", AllFields \ {f}, 1) : f \in AllFields}
      \cup {Response("invalid", {}, 1), Response("call", AllFields, 1)}

Complete(raw) == raw.form = "dict" /\ raw.keys = AllFields

\* eval(raw_data): the text is evaluated as a Python expression.
eval(raw) ==
    [raised |-> IF raw.form = "invalid" THEN "SyntaxError" ELSE "none",
     ran    |-> raw.form = "call",
     data   |-> [f \in raw.keys |-> raw.v]]

\* data.get(key): a missing key reads as None (0).
get_item(data, key) ==
    [raised |-> "none", value |-> IF key \in DOMAIN data THEN data[key] ELSE 0]

\* data[key]
getitem(data, key) ==
    IF key \in DOMAIN data
    THEN [raised |-> "none", value |-> data[key]]
    ELSE [raised |-> "KeyError", value |-> 0]

\* The first exception of the lookups, in the order of the f-string.
RECURSIVE FirstRaised(_, _)
FirstRaised(data, i) ==
    IF i > Len(Fields) THEN "none"
    ELSE IF getitem(data, Fields[i]).raised # "none"
         THEN getitem(data, Fields[i]).raised
         ELSE FirstRaised(data, i + 1)

format_mining_data(raw) ==
    LET e == eval(raw) IN
    IF e.raised # "none"
    THEN [raised |-> e.raised, ran |-> e.ran, mining_info |-> <<>>]
    ELSE [raised |-> FirstRaised(e.data, 1),
          ran |-> e.ran,
          mining_info |-> IF FirstRaised(e.data, 1) # "none" THEN <<>>
                          ELSE [i \in DOMAIN Fields |->
                                  <<Labels[i], getitem(e.data, Fields[i]).value>>]]

\* AppWindow.update_mining_data: the label is set when format_mining_data
\* returns; an exception is caught and written to the log file only.
update_mining_data(label, raw) ==
    LET r == format_mining_data(raw) IN
    [mining_data_label |-> IF r.raised = "none" THEN r.mining_info ELSE label,
     raised |-> r.raised,
     ran |-> r.ran]

\* ---------------------------------------------------------------- slots
StatusMining(n) == "Status: Mining... " \o ToString(n) \o " blocks mined."

Pending(w) == SubSeq(emitted[w], delivered[w] + 1, Len(emitted[w]))

\* A queued signal of worker w reaches its slot on the event loop.  The
\* worker passes the text of getmininginfo on as it is (result.strip()), and
\* nothing reads it before the slot does: raw is the text the signal carries.
Deliver(w, raw) ==
    /\ delivered[w] < Len(emitted[w])
    /\ delivered' = [delivered EXCEPT ![w] = @ + 1]
    /\ LET s == emitted[w][delivered[w] + 1] IN
        CASE s.sig = "mining_result" ->
               /\ logs_text_edit' = Append(logs_text_edit, s.msg)
               /\ last_slot' = [slot |-> "update_mining_result", outcome |-> "ok"]
               /\ UNCHANGED <<status_label, mining_data_label, executed>>
          [] s.sig = "blocks_mined_signal" ->
               /\ status_label' = StatusMining(s.count)
               /\ last_slot' = [slot |-> "update_mining_status", outcome |-> "ok"]
               /\ UNCHANGED <<logs_text_edit, mining_data_label, executed>>
          [] s.sig = "mining_data_signal" ->
               LET u == update_mining_data(mining_data_label, raw) IN
                 /\ mining_data_label' = u.mining_data_label
                 /\ executed' = (executed \/ u.ran)
                 /\ last_slot' = [slot |-> "update_mining_data",
                                  outcome |-> IF u.raised = "none" THEN "ok"
                                              ELSE u.raised]
                 /\ UNCHANGED <<logs_text_edit, status_label>>
    /\ UNCHANGED <<workerVars, mining_thread, start_button, stop_button, uncaught>>
    /\ UNCHANGED <<daemonVars, historyVars, balance_label, process, blocks_at_stop>>

\* A tick of balance_timer.
check_balance(outcome) ==
    /\ balance_label' = IF CalledProcessError(outcome)
                        THEN "ERROR: CalledProcessError"
                        ELSE "Balance: 0.00000000 AEG"
    /\ last_slot' = [slot |-> "check_balance",
                     outcome |-> IF CalledProcessError(outcome)
                                 THEN "CalledProcessError" ELSE "ok"]
    /\ UNCHANGED <<workerVars, windowVars, daemonVars, historyVars>>
    /\ UNCHANGED <<mining_data_label, process, executed, delivered, blocks_at_stop>>

\* What becomes of the process when an exception leaves a slot: PyQt5 from
\* 5.5 on calls qFatal(), which aborts; older versions print the traceback
\* and go on.
UnhandledInSlot == {"running", "aborted"}

\* A tick of mining_data_timer.
fetch_mining_data(outcome, raw) ==
    /\ IF CalledProcessError(outcome)
       THEN /\ uncaught' = "AttributeError"
            /\ process' \in UnhandledInSlot
            /\ last_slot' = [slot |-> "fetch_mining_data", outcome |-> "AttributeError"]
            /\ UNCHANGED <<mining_data_label, executed>>
       ELSE LET u == update_mining_data(mining_data_label, raw) IN
              /\ mining_data_label' = u.mining_data_label
              /\ executed' = (executed \/ u.ran)
              /\ last_slot' = [slot |-> "fetch_mining_data",
                               outcome |-> IF u.raised = "none" THEN "ok"
                                           ELSE u.raised]
              /\ UNCHANGED <<uncaught, process>>
    /\ UNCHANGED <<workerVars, mining_thread, status_label, start_button,
                   stop_button, logs_text_edit>>
    /\ UNCHANGED <<daemonVars, historyVars, balance_label, delivered, blocks_at_stop>>

\* ---------------------------------------------------------------- specification
Next ==
    \/ StartRequestOk
    \/ StartRequestFails
    \/ StartRequestDisabled
    \/ StopRequest /\ UNCHANGED blocks_at_stop
    \/ StopRequestDisabled
    \/ \E w \in Workers : WorkerStep(w)

Spec == Init /\ [][Next]_vars

\* Every daemon call and every sleep returns, and a started thread is
\* scheduled: each worker's next step is eventually taken.
Fairness == \A w \in Workers : WF_vars(WorkerStep(w))

\* The requests that reach a worker: a Start that obtains its address and a
\* Stop on the enabled button.  The steps left out (a click on a disabled
\* button, a Start whose getnewaddress fails) change no worker and no button.
MiningNext ==
    \/ StartRequestOk
    \/ StopRequest /\ UNCHANGED blocks_at_stop
    \/ \E w \in Workers : WorkerStep(w)

FairSpec == Init /\ [][MiningNext]_vars /\ Fairness

\* All requests, under the same fairness.
FairSpecAll == Spec /\ Fairness

\* Stop, with the count of the stopped worker at that moment kept.
StopMining ==
    /\ StopRequest
    /\ blocks_at_stop' = IF StopTakesEffect(Window)
                         THEN [blocks_at_stop EXCEPT ![mining_thread] =
                                 blocks_mined[mining_thread]]
                         ELSE blocks_at_stop

Drained(w) == delivered[w] = Len(emitted[w])

\* A queued call outlives its sender: a worker nobody refers to is dropped
\* from the state only once its signals have reached their slots.
WindowWorkerStep(w) ==
    /\ WorkerStep(w)
    /\ (pc'[w] = "finished" /\ Unreferenced(w) # {}) => Drained(w)

\* The requests that reach a worker, with the count at Stop kept.
StopNext ==
    \/ StartRequestOk
    \/ StopMining
    \/ \E w \in Workers : WorkerStep(w)

StopSpec == Init /\ [][StopNext]_vars

\* The two poll timers of the window, which run from its construction on,
\* for as long as the process runs.
BalanceTick ==
    /\ process = "running"
    /\ \E outcome \in {"ok", "fail"} : check_balance(outcome)

MiningDataTick ==
    /\ process = "running"
    /\ \E outcome \in {"ok", "fail"}, raw \in Responses : fetch_mining_data(outcome, raw)

TimerNext ==
    \/ BalanceTick
    \/ MiningDataTick

TimerSpec == Init /\ [][TimerNext]_vars

\* The first MaxSessions workers of a run of the application.
MaxSessions == 1

SessionStart == created < MaxSessions /\ StartRequestOk

\* The poll timers while workers mine.
PollNext ==
    \/ process = "running" /\ SessionStart
    \/ process = "running" /\ StopRequest /\ UNCHANGED blocks_at_stop
    \/ process = "running" /\ \E w \in Workers : WorkerStep(w)
    \/ BalanceTick
    \/ MiningDataTick

PollSpec == Init /\ [][PollNext]_vars

\* The signals of the workers on their way to the slots of the window.
DeliveryNext ==
    \/ /\ SessionStart
       /\ \A v \in Workers : (v = mining_thread /\ pc[v] = "finished") => Drained(v)
    \/ StopRequest /\ UNCHANGED blocks_at_stop
    \/ \E w \in Workers : WindowWorkerStep(w)
    \/ \E w \in Workers, raw \in Responses : Deliver(w, raw)

DeliverySpec == Init /\ [][DeliveryNext]_vars


\* ---------------------------------------------------------------- events
\* The signals of a worker read as the events of the specification:
\* blocks_mined_signal(n) is BlockMined{n}, mining_data_signal is InfoUpdated,
\* and a mining_result message that starts with "ERROR:" is MiningError.  The
\* other mining_result messages are log lines, not events.
ErrorMessages == {"ERROR: Mining failed", "ERROR: Unable to fetch mining data"}

IsEvent(s) ==
    \/ s.sig \in {"blocks_mined_signal", "mining_data_signal"}
    \/ s.sig = "mining_result" /\ s.msg \in ErrorMessages

Event(s) ==
    IF s.sig = "blocks_mined_signal" THEN [type |-> "BlockMined", count |-> s.count]
    ELSE IF s.sig = "mining_data_signal" THEN [type |-> "InfoUpdated", count |-> 0]
    ELSE [type |-> "MiningError", count |-> 0]

Events(w) ==
    LET e == SelectSeq(emitted[w], IsEvent)
    IN [i \in 1..Len(e) |-> Event(e[i])]

\* The counts carried by the worker's blocks_mined_signal emissions, in order.
BlockCounts(w) ==
    LET e == SelectSeq(emitted[w], LAMBDA s : s.sig = "blocks_mined_signal")
    IN [i \in 1..Len(e) |-> e[i].count]

IsPrefix(a, b) == Len(a) <= Len(b) /\ \A i \in 1..Len(a) : a[i] = b[i]

Count(seq, x) == Cardinality({i \in 1..Len(seq) : seq[i] = x})

\* The current worker exists, its flag is set and its thread is alive.
Mining ==
    /\ mining_thread # NoThread
    /\ running[mining_thread]
    /\ isRunning(mining_thread)

\* ---------------------------------------------------------------- claims

\* C1: a worker whose generatetoaddress call fails while its running flag is
\* true goes through the backoff and tries again; its loop ends only once the
\* flag is false.  So a worker that has finished has a false running flag.
C1_LoopEndsOnlyWhenStopped ==
    \A w \in Workers : pc[w] = "finished" => ~running[w]

\* C2: at most one mining worker is live in every reachable state, also when
\* Start follows Stop before the stopped worker has finished.
C2_AtMostOneLiveWorker == Cardinality(Live) <= 1

\* C3: once Stop has been requested for a worker (which the handler does only
\* while the worker's thread is alive: mining, sleeping or in its backoff),
\* the worker's thread eventually is no longer running.
C3_StopTerminatesWorker ==
    \A w \in Workers : (stopped_in[w] # "never") ~> ~isRunning(w)

\* C3 witness: one worker was stopped during its backoff, another while
\* mining, and both have finished.
C3_Witness ==
    \E v, w \in Workers :
        /\ stopped_in[v] = "backoff" /\ pc[v] = "finished"
        /\ stopped_in[w] = "mining" /\ pc[w] = "finished"

C4_Script == <<"ok", "ok", "ok", "fail", "ok">>

C4_Expected ==
    << [type |-> "BlockMined", count |-> 1], [type |-> "InfoUpdated", count |-> 0],
       [type |-> "BlockMined", count |-> 2], [type |-> "InfoUpdated", count |-> 0],
       [type |-> "BlockMined", count |-> 3], [type |-> "InfoUpdated", count |-> 0],
       [type |-> "MiningError", count |-> 0],
       [type |-> "BlockMined", count |-> 4], [type |-> "InfoUpdated", count |-> 0] >>

\* C4: a single worker, never stopped, whose generatetoaddress calls follow
\* the script ok, ok, ok, fail, ok and whose getmininginfo calls all succeed,
\* emits the expected events in order: what it has emitted so far is a prefix
\* of them, and it does not finish before it has emitted them all.
C4_ScenarioEvents ==
    \A w \in Workers :
        ( /\ created = 1
          /\ stopped_in[w] = "never"
          /\ IsPrefix(gen_log[w], C4_Script)
          /\ \A i \in 1..Len(info_log[w]) : info_log[w][i] = "ok" )
        => /\ IsPrefix(Events(w), C4_Expected)
           /\ pc[w] = "finished" => Events(w) = C4_Expected

\* C5: a worker's blocks_mined equals the number of its generatetoaddress
\* calls that have succeeded, and its BlockMined events carry 1, 2, ..., one
\* per success.
C5_BlocksMinedCountsSuccesses ==
    \A w \in Workers :
        /\ blocks_mined[w] = Count(gen_log[w], "ok")
        /\ BlockCounts(w) = [i \in 1..blocks_mined[w] |-> i]

\* C5 witness: a worker mined two blocks and then had a failed call.
C5_Witness ==
    \E w \in Workers : gen_log[w] = <<"ok", "ok", "fail">> /\ blocks_mined[w] = 2

\* C6: a Start whose getnewaddress call fails creates and starts no worker,
\* reports exactly one error, and leaves IsRunning false.
C6_AddressFailureReportedOnce ==
    [][ ( /\ newaddress_calls' = newaddress_calls + 1
          /\ last'.outcome = "getnewaddress failed" )
        => /\ Len(logs_text_edit') = Len(logs_text_edit) + 1
           /\ UNCHANGED workerVars
           /\ mining_thread' = NoThread \/ ~isRunning(mining_thread)' ]_vars

\* A step of a Start request: the request is recorded, or a worker or an
\* address comes into being.
StartStep ==
    \/ last'.op = "Start" /\ last' # last
    \/ created' # created
    \/ newaddress_calls' # newaddress_calls

\* C7: a Start request while the current worker is alive with its running
\* flag true is rejected: no worker is created, getnewaddress is not called,
\* and nothing of the program state changes.
C7_StartRejectedWhileMining ==
    [][ (Mining /\ StartStep)
        => /\ last'.outcome = "disabled"
           /\ UNCHANGED <<programVars, newaddress_calls>> ]_vars

\* C7 witness: Start was requested and rejected while the worker is mining.
C7_Witness ==
    /\ Mining
    /\ last = [op |-> "Start", outcome |-> "disabled"]
    /\ blocks_mined[mining_thread] > 0

\* C8: whenever no worker is live, a Start request is accepted.
C8_StartAcceptedWhenIdle == Live = {} => start_button

\* C9: Stop twice in a row leaves the state as Stop once does, for the click
\* on the button and for the handler itself, and Stop raises nothing.
C9_StopIdempotent ==
    /\ StopClicked(StopClicked(Window)) = StopClicked(Window)
    /\ stop_mining(stop_mining(Window)) = stop_mining(Window)
    /\ stop_mining(Window).uncaught = "none"

\* C9 witness: Stop has just stopped a worker whose thread is still alive, so
\* a second Stop finds the handler's condition true again.
C9_Witness ==
    /\ last = [op |-> "Stop", outcome |-> "stopped"]
    /\ mining_thread # NoThread
    /\ isRunning(mining_thread)
    /\ ~running[mining_thread]

\* C10: a Stop request before any worker was ever created changes nothing: no
\* worker, no signal, no log line, the buttons and the status as they were.
C10_StopBeforeStartNoEffect ==
    [][ (mining_thread = NoThread /\ last'.op = "Stop")
        => UNCHANGED <<programVars, newaddress_calls, gen_log, info_log, stopped_in>> ]_vars

\* C10 witness: Stop was requested, and ran its handler, with no worker ever
\* created.
C10_Witness ==
    /\ created = 0
    /\ mining_thread = NoThread
    /\ last = [op |-> "Stop", outcome |-> "nothing"]


\* ---------------------------------------------------------------- C11
\* A poll tick that fails: getbalance or getmininginfo exits non-zero, or
\* the text getmininginfo printed does not parse.
PollFailure(raw) ==
    \/ check_balance("fail")
    \/ fetch_mining_data("fail", raw)
    \/ format_mining_data(raw).raised # "none" /\ fetch_mining_data("ok", raw)

\* C11: a failing poll tick changes no worker's running flag, blocks_mined
\* or position in run(), and the workers go on mining: the process that
\* runs them is still running after the tick.
C11_PollFailureLeavesWorkers ==
    [][ (\E raw \in Responses : PollFailure(raw))
        => (UNCHANGED <<running, blocks_mined, pc>> /\ process' = "running") ]_vars

\* ---------------------------------------------------------------- C12
\* A daemon call that fails or a response that does not parse, in a worker
\* or in a poll tick.
Failure(raw) ==
    \/ PollFailure(raw)
    \/ \E w \in Workers : GenerateReturns(w, "fail")
    \/ \E w \in Workers : MiningInfoReturns(w, "fail")

\* What the step makes of an error: a line added to the log view, the
\* error text in the balance label, or an "ERROR:" message emitted by a
\* worker and queued for update_mining_result.
ErrorReported ==
    \/ Len(logs_text_edit') > Len(logs_text_edit)
    \/ balance_label' = "ERROR: CalledProcessError"
    \/ \E w \in Workers :
         \E i \in (Len(emitted[w]) + 1)..Len(emitted'[w]) :
            emitted'[w][i].sig = "mining_result" /\ emitted'[w][i].msg \in ErrorMessages

\* C12: every failure is reported: the step in which a call fails or a
\* response does not parse shows an error in the window or queues an error
\* message for it.
C12_EveryFailureReported ==
    [][ (\E raw \in Responses : Failure(raw)) => ErrorReported ]_vars

\* ---------------------------------------------------------------- C13
\* The text of the mining-info label for a complete answer with values v.
Snapshot(v) == [i \in DOMAIN Fields |-> <<Labels[i], v>>]

Incomplete(raw) == raw.form = "dict" /\ raw.keys # AllFields

\* C13: a response that lacks one of the seven keys does not parse and
\* leaves the mining-info label as it is, and the label only ever holds
\* its initial text or the seven lines of a complete answer.
C13_SnapshotReplacedWholesale ==
    /\ \A raw \in Responses :
          Incomplete(raw) =>
            /\ format_mining_data(raw).raised # "none"
            /\ update_mining_data(mining_data_label, raw).mining_data_label
                 = mining_data_label
    /\ \/ mining_data_label = <<"Mining Info: Fetching...">>
       \/ \E v \in Versions : mining_data_label = Snapshot(v)

\* A snapshot is on display and the last tick's response, which lacked a
\* key, was refused.
C13_Witness ==
    /\ last_slot = [slot |-> "fetch_mining_data", outcome |-> "KeyError"]
    /\ \E v \in Versions : mining_data_label = Snapshot(v)

\* ---------------------------------------------------------------- C14
\* C14: parsing a response never runs the response text as code: whatever
\* the text, a parse only yields the label text or a parse failure.
C14_ResponseNeverExecuted == ~executed

\* ---------------------------------------------------------------- C15
Stopped(w) == stopped_in[w] # "never"

\* C15: the step of a Stop request moves no worker and ends no call; a
\* stopped worker whose generatetoaddress call is in flight leaves it only
\* by the call returning, with its outcome recorded; a stopped worker
\* starts no generatetoaddress call; and it ends only where run() ends: at
\* the loop test or after the sleep that follows a failure.
C15_StopCooperative ==
    [][ \A w \in Workers :
          /\ (~Stopped(w) /\ Stopped(w)')
               => UNCHANGED <<pc, blocks_mined, emitted, gen_log, info_log>>
          /\ (Stopped(w) /\ pc[w] = "generatetoaddress" /\ pc'[w] # pc[w])
               => /\ Len(gen_log'[w]) = Len(gen_log[w]) + 1
                  /\ pc'[w] \in {"getmininginfo", "sleep_5"}
          /\ (Stopped(w) /\ pc[w] # "generatetoaddress")
               => pc'[w] # "generatetoaddress"
          /\ (Stopped(w) /\ pc[w] # "finished" /\ pc'[w] = "finished")
               => pc[w] \in {"while", "sleep_5"} ]_vars

\* A worker was stopped during a generatetoaddress call; the call returned
\* and was counted, and the worker is in the rest of that iteration.
C15_Witness ==
    \E w \in Workers :
        /\ Stopped(w)
        /\ pc[w] = "getmininginfo"
        /\ blocks_mined[w] = blocks_at_stop[w] + 1

\* ---------------------------------------------------------------- C16
\* C16: when the getmininginfo call of a mining iteration fails, the worker
\* emits a mining error and goes into the sleep of 5 seconds that follows a
\* generatetoaddress failure, and the block of the iteration stays counted.
C16_InfoFailureBacksOff ==
    [][ \A w \in Workers :
          MiningInfoReturns(w, "fail")
            => /\ emitted'[w][Len(emitted'[w])].msg \in ErrorMessages
               /\ blocks_mined'[w] = blocks_mined[w]
               /\ pc'[w] = "sleep_5" ]_vars

\* ---------------------------------------------------------------- C17
\* C17: a stopped worker has counted, and has announced with
\* blocks_mined_signal, at most one block more than it had when Stop was
\* requested.
C17_AtMostOneBlockAfterStop ==
    \A w \in Workers :
        Stopped(w) =>
            /\ blocks_mined[w] <= blocks_at_stop[w] + 1
            /\ Len(BlockCounts(w)) <= blocks_at_stop[w] + 1

\* The current worker was stopped during a generatetoaddress call, counted
\* and announced that block, and its thread has ended.
C17_Witness ==
    /\ mining_thread # NoThread
    /\ Stopped(mining_thread)
    /\ pc[mining_thread] = "finished"
    /\ blocks_at_stop[mining_thread] > 0
    /\ blocks_mined[mining_thread] = blocks_at_stop[mining_thread] + 1
    /\ Len(BlockCounts(mining_thread)) = blocks_at_stop[mining_thread] + 1

\* ---------------------------------------------------------------- C18
\* C18: once Stop has set the status to stopped, the status changes only
\* in the step of an accepted Start.
C18_StoppedStatusStays ==
    [][ (status_label = "Status: Mining stopped." /\ status_label' # status_label)
        => created' # created ]_vars

====
